---------------------------- MODULE Spec2Model ----------------------------
(***************************************************************************)
(* A model of the DoSOCSv2 utility core (src/src/util.py) and of the      *)
(* license-info record (src/src/licensingInfo.py).                         *)
(*                                                                         *)
(* The module holds five state machines over disjoint groups of           *)
(* variables, one per component:                                           *)
(*   SpecVer      gen_ver_code         (util.py 85-91)                     *)
(*   SpecType     spdx_filetype        (util.py 38-57)                     *)
(*   SpecExtract  tempextract          (util.py 67-82)                     *)
(*   SpecDb       insertLicensingInfo / getLicensingInfo                   *)
(*   SpecOut      outputLicensingInfo_TAG / outputLicensingInfo_RDF        *)
(*                                                                         *)
(* The code is Python 2 (MySQLdb, hashlib.sha1 applied to a str).          *)
(***************************************************************************)
EXTENDS Integers, Sequences, FiniteSets, TLC

VARIABLES
    \* gen_ver_code
    hashes,            \* the argument `hashes`, in the caller's enumeration order
    excluded_hashes,   \* the argument `excluded_hashes` (None or a set)
    verCode,           \* the value returned
    verPc,             \* "ready" before the call, "done" after it
    \* spdx_filetype
    magic_string,      \* what magic.from_file(filename) returned
    filetype,          \* the value returned
    ftPc,
    \* tempextract
    fs,                \* the scratch directories that exist on the file system
    nextDir,           \* identity of the next directory mkdtemp creates
    dirContent,        \* directory -> the member paths extracted into it
    tx,                \* use -> the frame of that use of tempextract
    \* licensingInfo and the database
    self,              \* the fields of the licensingInfo object
    package_files,     \* table package_files
    licenses,          \* table licenses
    doc_license_associations,
    licensings,
    auto_increment,    \* table name -> Auto_increment of SHOW TABLE STATUS
    lastCall,          \* the last method call on the object and its outcome
    \* the serializers
    rec,               \* the fields of the licensingInfo object serialized
    output,            \* the string returned (None when the call raised)
    outCall            \* the serializer last called and its outcome

verVars == <<hashes, excluded_hashes, verCode, verPc>>
ftVars  == <<magic_string, filetype, ftPc>>
txVars  == <<fs, nextDir, dirContent, tx>>
dbVars  == <<self, package_files, licenses, doc_license_associations,
             licensings, auto_increment, lastCall>>
outVars == <<rec, output, outCall>>
vars    == <<verVars, ftVars, txVars, dbVars, outVars>>

-----------------------------------------------------------------------------
(* Python values.  None, str, list and set are kept apart by a type tag, so *)
(* that `x != None` and `x != ""` are comparisons between values of       *)
(* different Python types, as in the code.                                 *)

None      == [type |-> "NoneType"]
PyStr(s)  == [type |-> "str", s |-> s]
PyList(q) == [type |-> "list", items |-> q]
PySet(S)  == [type |-> "set", elems |-> S]
PyInt(n)  == [type |-> "int", n |-> n]

\* str(x) for the values the serializers are given
str(x) ==
    CASE x.type = "NoneType" -> "None"
      [] x.type = "str"      -> x.s
      [] x.type = "int"      -> ToString(x.n)

\* All sequences over S of length at most n
SeqUpTo(S, n) == UNION {[1..k -> S] : k \in 0..n}

\* All subsets of S with at most n elements
SubsetsUpTo(S, n) == {T \in SUBSET S : Cardinality(T) <= n}

-----------------------------------------------------------------------------
(* gen_ver_code.                                                           *)

MaxHashes   == 3   \* longest `hashes` argument explored
MaxExcluded == 2   \* largest `excluded_hashes` argument explored

\* lower-case hex strings of two lengths, so that concatenation and ordering
\* both matter ("1" \o "a1" = "1a" \o "1")
HashStrings == {"1", "a", "11", "1a", "a1", "aa"}

\* ord(c) of a lower-case hex digit
ord(c) ==
    CASE c = "0" -> 48 [] c = "1" -> 49 [] c = "2" -> 50 [] c = "3" -> 51
      [] c = "4" -> 52 [] c = "5" -> 53 [] c = "6" -> 54 [] c = "7" -> 55
      [] c = "8" -> 56 [] c = "9" -> 57 [] c = "a" -> 97 [] c = "b" -> 98
      [] c = "c" -> 99 [] c = "d" -> 100 [] c = "e" -> 101 [] c = "f" -> 102

\* Python's str `<`: lexicographic by character code, a proper prefix first
RECURSIVE StrLess(_, _)
StrLess(a, b) ==
    IF b = "" THEN FALSE
    ELSE IF a = "" THEN TRUE
    ELSE IF SubSeq(a, 1, 1) # SubSeq(b, 1, 1)
         THEN ord(SubSeq(a, 1, 1)) < ord(SubSeq(b, 1, 1))
    ELSE StrLess(SubSeq(a, 2, Len(a)), SubSeq(b, 2, Len(b)))

\* insert h into the sorted list q, after the elements not greater than it
RECURSIVE SortedInsert(_, _)
SortedInsert(q, h) ==
    IF q = <<>> THEN <<h>>
    ELSE IF StrLess(h, q[1]) THEN <<h>> \o q
    ELSE <<q[1]>> \o SortedInsert(Tail(q), h)

sorted_unsorted(q) == q

\* sorted(iterable): a new list, ascending
RECURSIVE sorted(_)
sorted(q) ==
    IF q = <<>> THEN <<>> ELSE SortedInsert(sorted(SubSeq(q, 1, Len(q) - 1)), q[Len(q)])

\* ''.join(list)
RECURSIVE join(_)
join(q) == IF q = <<>> THEN "" ELSE q[1] \o join(Tail(q))

\* hashlib.sha1(blob).hexdigest(): a deterministic, order-sensitive, lossy
\* digest of the whole blob.  SHA-1 itself is abstracted to a 16-bit
\* multiplicative fold; only the properties that it is a function of the
\* blob and that it is not injective are kept.
RECURSIVE Sha1Fold(_, _)
Sha1Fold(h, blob) ==
    IF blob = "" THEN h
    ELSE Sha1Fold((h * 31 + ord(SubSeq(blob, 1, 1))) % 65536, SubSeq(blob, 2, Len(blob)))

sha1_hexdigest(blob) == Sha1Fold(Len(blob) + 7, blob)

gen_ver_code_noexclude(hs, excl) == sha1_hexdigest(join(sorted(hs)))

\* def gen_ver_code(hashes, excluded_hashes=None)
gen_ver_code(hs, excl) ==
    LET excluded == IF excl = None THEN {} ELSE excl.elems
        hashes_less_excluded == SelectSeq(hs, LAMBDA h : h \notin excluded)
        hashblob == join(sorted(hashes_less_excluded))
    IN  sha1_hexdigest(hashblob)

VerIdle ==
    /\ hashes = <<>>
    /\ excluded_hashes = None
    /\ verCode = None
    /\ verPc = "idle"

VerInit ==
    /\ hashes \in SeqUpTo(HashStrings, MaxHashes)
    /\ excluded_hashes \in {None} \cup {PySet(E) : E \in SubsetsUpTo(HashStrings, MaxExcluded)}
    /\ verCode = None
    /\ verPc = "ready"

\* the caller calls gen_ver_code(hashes, excluded_hashes)
GenVerCode ==
    /\ verPc = "ready"
    /\ verCode' = PyInt(gen_ver_code(hashes, excluded_hashes))
    /\ verPc' = "done"
    /\ UNCHANGED <<hashes, excluded_hashes>>


\* one call of gen_ver_code on inputs drawn from the bounded sets
VerNext == GenVerCode /\ UNCHANGED <<ftVars, txVars, dbVars, outVars>>

\* the permutations of 1..n
Perms(n) == {p \in [1..n -> 1..n] : \A i, j \in 1..n : p[i] = p[j] => i = j}

\* the list q enumerated in the order p
Permuted(q, p) == [i \in 1..Len(q) |-> q[p[i]]]

\* C1: gen_ver_code is order-independent: the digest returned for the
\* hashes in the caller's order is the digest returned for every permutation
\* of them, under the same exclusion set.
VerCodeOrderIndependent ==
    verPc = "done" =>
        \A p \in Perms(Len(hashes)) :
            PyInt(gen_ver_code(Permuted(hashes, p), excluded_hashes)) = verCode

\* a call on at least two hashes that were not passed in ascending order
VerCodeUnsortedInputSeen ==
    /\ verPc = "done"
    /\ Len(hashes) >= 2
    /\ \E i \in 1..(Len(hashes) - 1) : StrLess(hashes[i + 1], hashes[i])
    /\ \E i \in 1..Len(hashes) :
           excluded_hashes = None \/ hashes[i] \notin excluded_hashes.elems

\* H - E: the hashes of H that are not in the set E, in H's order
HashesMinus(H, E) ==
    IF H = <<>> THEN <<>>
    ELSE [i \in 1..Cardinality({k \in 1..Len(H) : H[k] \notin E}) |->
            H[CHOOSE k \in 1..Len(H) :
                 /\ H[k] \notin E
                 /\ Cardinality({m \in 1..k : H[m] \notin E}) = i]]

\* C2: gen_ver_code(H, E) = gen_ver_code(H - E, empty set), and a call without
\* the exclusion argument (None) returns what a call with the empty set returns.
VerCodeExclusionIsRemoval ==
    verPc = "done" =>
        /\ excluded_hashes # None =>
              verCode = PyInt(gen_ver_code(HashesMinus(hashes, excluded_hashes.elems),
                                           PySet({})))
        /\ excluded_hashes = None =>
              verCode = PyInt(gen_ver_code(hashes, PySet({})))

\* a call whose exclusion set removes some, but not all, of the hashes
VerCodeExclusionSeen ==
    /\ verPc = "done"
    /\ excluded_hashes # None
    /\ \E i \in 1..Len(hashes) : hashes[i] \in excluded_hashes.elems
    /\ \E i \in 1..Len(hashes) : hashes[i] \notin excluded_hashes.elems

-----------------------------------------------------------------------------
(* spdx_filetype.                                                          *)

MaxFragments == 2   \* most fragments joined into one probe string

\* `sub in s` for Python strings
In(sub, s) ==
    \E i \in 1..(Len(s) - Len(sub) + 1) : SubSeq(s, i, i + Len(sub) - 1) = sub

\* pieces of the descriptions libmagic prints
Fragments ==
    {"ASCII", "text", " text", " source", " script", " program", " shell script",
     " text executable", "HTML", "XML", " executable", " relocatable",
     " shared object", " dynamically linked", " ar archive", "archive", " data",
     ", "}

RECURSIVE Concat(_)
Concat(q) == IF q = <<>> THEN "" ELSE q[1] \o Concat(Tail(q))

\* the strings magic.from_file(filename) returns in the model
ProbeStrings ==
    {"ELF 64-bit LSB executable, dynamically linked",
     "ASCII text",
     "POSIX shell script, ASCII text executable",
     "Zip archive data",
     "current ar archive",
     "C source, ASCII text"}
    \cup {Concat(q) : q \in SeqUpTo(Fragments, MaxFragments)}

spdx_filetype_archive_before_binary(ms) ==
    IF \/ In(" source", ms) /\ In(" text", ms)
       \/ In(" script", ms) /\ In(" text", ms)
       \/ In(" program", ms) /\ In(" text", ms)
       \/ In(" shell script", ms)
       \/ In(" text executable", ms)
       \/ In("HTML", ms) /\ In("text", ms)
       \/ In("XML", ms) /\ In("text", ms)
    THEN "SOURCE"
    ELSE IF In("archive", ms)
    THEN "ARCHIVE"
    ELSE IF \/ In(" executable", ms)
            \/ In(" relocatable", ms)
            \/ In(" shared object", ms)
            \/ In(" dynamically linked", ms)
            \/ In(" ar archive", ms)
    THEN "BINARY"
    ELSE "OTHER"

\* def spdx_filetype(filename), from magic_string on
spdx_filetype(ms) ==
    IF \/ In(" source", ms) /\ In(" text", ms)
       \/ In(" script", ms) /\ In(" text", ms)
       \/ In(" program", ms) /\ In(" text", ms)
       \/ In(" shell script", ms)
       \/ In(" text executable", ms)
       \/ In("HTML", ms) /\ In("text", ms)
       \/ In("XML", ms) /\ In("text", ms)
    THEN "SOURCE"
    ELSE IF \/ In(" executable", ms)
            \/ In(" relocatable", ms)
            \/ In(" shared object", ms)
            \/ In(" dynamically linked", ms)
            \/ In(" ar archive", ms)
    THEN "BINARY"
    ELSE IF In("archive", ms)
    THEN "ARCHIVE"
    ELSE "OTHER"

FtInit ==
    /\ magic_string \in ProbeStrings
    /\ filetype = None
    /\ ftPc = "ready"

\* the caller calls spdx_filetype(filename); libmagic describes the file
SpdxFiletype ==
    /\ ftPc = "ready"
    /\ filetype' = PyStr(spdx_filetype(magic_string))
    /\ ftPc' = "done"
    /\ UNCHANGED magic_string

FtNext == SpdxFiletype /\ UNCHANGED <<verVars, txVars, dbVars, outVars>>

\* the SOURCE patterns: each is a set of substrings that must all occur
SourcePatterns ==
    {{" source", " text"}, {" script", " text"}, {" program", " text"},
     {" shell script"}, {" text executable"}, {"HTML", "text"}, {"XML", "text"}}

\* the BINARY patterns
BinaryPatterns ==
    {" executable", " relocatable", " shared object", " dynamically linked",
     " ar archive"}

SourceMatches(ms) == \E g \in SourcePatterns : \A sub \in g : In(sub, ms)
BinaryMatches(ms) == \E sub \in BinaryPatterns : In(sub, ms)

\* C4: spdx_filetype is total and first-match-wins: SOURCE whenever a SOURCE
\* pattern matches, otherwise BINARY whenever a BINARY pattern matches
\* (" ar archive" included), otherwise ARCHIVE when the string contains
\* "archive", otherwise OTHER; and the four probe strings of the
\* specification are classified BINARY, OTHER, SOURCE and ARCHIVE.
FiletypeFirstMatchWins ==
    ftPc = "done" =>
        /\ filetype.type = "str"
        /\ filetype.s \in {"SOURCE", "BINARY", "ARCHIVE", "OTHER"}
        /\ filetype.s = "SOURCE" <=> SourceMatches(magic_string)
        /\ filetype.s = "BINARY" <=>
              ~SourceMatches(magic_string) /\ BinaryMatches(magic_string)
        /\ filetype.s = "ARCHIVE" <=>
              /\ ~SourceMatches(magic_string)
              /\ ~BinaryMatches(magic_string)
              /\ In("archive", magic_string)
        /\ magic_string = "ELF 64-bit LSB executable, dynamically linked"
              => filetype.s = "BINARY"
        /\ magic_string = "ASCII text" => filetype.s = "OTHER"
        /\ magic_string = "POSIX shell script, ASCII text executable"
              => filetype.s = "SOURCE"
        /\ magic_string = "Zip archive data" => filetype.s = "ARCHIVE"

\* an "ar archive" probe string, which matches both the BINARY pattern and
\* the ARCHIVE rule and no SOURCE pattern, has been classified
FiletypeArArchiveSeen ==
    /\ ftPc = "done"
    /\ In(" ar archive", magic_string)
    /\ ~SourceMatches(magic_string)
    /\ filetype = PyStr("BINARY")

-----------------------------------------------------------------------------
(* tempextract.  Each use is one `with tempextract(path) as (d, names):`  *)
(* statement; its frame in tx follows the generator of util.py 67-82      *)
(* through contextlib's __enter__ and __exit__.  tempfile.mkdtemp and     *)
(* shutil.rmtree are taken to succeed; a scratch directory is identified  *)
(* by the number mkdtemp gave it, never reused.                            *)

NumUses == 2   \* uses of tempextract that may be open at once

\* what no step of tempextract touches
txOthers == <<verVars, ftVars, dbVars, outVars>>

Uses == 1..NumUses

\* what `path` may name: a tar archive, a tar archive whose data is cut
\* short, a zip archive, a file that is neither, and no file at all
Archives ==
    {[kind |-> "tar", members |-> <<"pkg", "pkg/a.c">>],
     [kind |-> "tar", members |-> <<>>],
     [kind |-> "badtar", members |-> <<"pkg", "pkg/a.c">>],
     [kind |-> "zip", members |-> <<"z.txt">>],
     [kind |-> "other", members |-> <<>>],
     [kind |-> "missing", members |-> <<>>]}

\* tarfile.is_tarfile(path): the header of a cut-short archive still reads
is_tarfile(a) == a.kind \in {"tar", "badtar"}

\* zipfile.is_zipfile(path)
is_zipfile(a) == a.kind = "zip"

NoFrame ==
    [pc |-> "idle", path |-> [kind |-> "other", members |-> <<>>], tempdir |-> 0,
     relpaths |-> <<>>, yielded |-> <<>>, exc |-> "", outcome |-> ""]

TxInit ==
    /\ fs = {}
    /\ nextDir = 1
    /\ dirContent = <<>>
    /\ tx = [u \in Uses |-> NoFrame]

\* `with tempextract(path)`: __enter__ starts the generator, which enters
\* the try block and runs tempdir = tempfile.mkdtemp()
Enter(u, a) ==
    /\ tx[u].pc = "idle"
    /\ tx' = [tx EXCEPT ![u].pc = "is_tarfile", ![u].path = a, ![u].tempdir = nextDir]
    /\ fs' = fs \cup {nextDir}
    /\ dirContent' = [d \in fs \cup {nextDir} |-> IF d = nextDir THEN <<>> ELSE dirContent[d]]
    /\ nextDir' = nextDir + 1
    /\ UNCHANGED txOthers

\* if tarfile.is_tarfile(path): raises IOError when path names no file
IsTarfile(u) ==
    /\ tx[u].pc = "is_tarfile"
    /\ tx' = [tx EXCEPT ![u].pc =
                 IF tx[u].path.kind = "missing" THEN "finally"
                 ELSE IF is_tarfile(tx[u].path) THEN "tar_extract"
                 ELSE "is_zipfile",
              ![u].exc = IF tx[u].path.kind = "missing" THEN "IOError" ELSE ""]
    /\ UNCHANGED <<fs, nextDir, dirContent, txOthers>>

\* with tarfile.open(path) as tf: relpaths = tf.getnames();
\* tf.extractall(path=tempdir).  On an archive cut short extractall raises
\* after the members it could read.
TarExtract(u) ==
    /\ tx[u].pc = "tar_extract"
    /\ LET a == tx[u].path
           bad == a.kind = "badtar"
           got == IF bad THEN SubSeq(a.members, 1, 1) ELSE a.members
       IN  /\ dirContent' = [dirContent EXCEPT ![tx[u].tempdir] = got]
           /\ tx' = [tx EXCEPT ![u].relpaths = a.members,
                               ![u].pc = IF bad THEN "finally" ELSE "yield",
                               ![u].exc = IF bad THEN "IOError" ELSE ""]
    /\ UNCHANGED <<fs, nextDir, txOthers>>

\* yield (tempdir, relpaths): __enter__ returns the pair to the caller
Yield(u) ==
    /\ tx[u].pc = "yield"
    /\ tx' = [tx EXCEPT ![u].yielded = Append(@, <<tx[u].tempdir, tx[u].relpaths>>),
                        ![u].pc = "body"]
    /\ UNCHANGED <<fs, nextDir, dirContent, txOthers>>

\* the caller's body completes: __exit__ resumes the generator after the yield
BodyReturns(u) ==
    /\ tx[u].pc = "body"
    /\ tx' = [tx EXCEPT ![u].pc = "finally"]
    /\ UNCHANGED <<fs, nextDir, dirContent, txOthers>>

\* the caller's body raises: __exit__ throws the exception in at the yield
BodyRaises(u) ==
    /\ tx[u].pc = "body"
    /\ tx' = [tx EXCEPT ![u].pc = "finally", ![u].exc = "BodyError"]
    /\ UNCHANGED <<fs, nextDir, dirContent, txOthers>>

\* elif zipfile.is_zipfile(path): when false the try block ends, nothing yielded
IsZipfile(u) ==
    /\ tx[u].pc = "is_zipfile"
    /\ tx' = [tx EXCEPT ![u].pc = IF is_zipfile(tx[u].path) THEN "zip_open" ELSE "finally"]
    /\ UNCHANGED <<fs, nextDir, dirContent, txOthers>>

\* with zipfile.open(path) as zf: the module zipfile has no attribute `open`
ZipOpen(u) ==
    /\ tx[u].pc = "zip_open"
    /\ tx' = [tx EXCEPT ![u].pc = "finally", ![u].exc = "AttributeError"]
    /\ UNCHANGED <<fs, nextDir, dirContent, txOthers>>

Finally_skipped_on_exception(u) ==
    /\ tx[u].pc = "finally"
    /\ fs' = IF tx[u].exc = "" THEN fs \ {tx[u].tempdir} ELSE fs
    /\ dirContent' = [d \in fs' |-> dirContent[d]]
    /\ tx' = [tx EXCEPT ![u].pc = "exited",
                        ![u].outcome = IF tx[u].exc # "" THEN tx[u].exc
                                       ELSE IF tx[u].yielded = <<>> THEN "RuntimeError"
                                       ELSE "ok"]
    /\ UNCHANGED <<nextDir, txOthers>>

\* finally: shutil.rmtree(tempdir).  Then the with statement ends: with the
\* pending exception, or with contextlib's RuntimeError("generator didn't
\* yield") when the generator returned without yielding, or normally.
Finally(u) ==
    /\ tx[u].pc = "finally"
    /\ fs' = fs \ {tx[u].tempdir}
    /\ dirContent' = [d \in fs' |-> dirContent[d]]
    /\ tx' = [tx EXCEPT ![u].pc = "exited",
                        ![u].outcome = IF tx[u].exc # "" THEN tx[u].exc
                                       ELSE IF tx[u].yielded = <<>> THEN "RuntimeError"
                                       ELSE "ok"]
    /\ UNCHANGED <<nextDir, txOthers>>

TxNext ==
    \/ \E u \in Uses, a \in Archives : Enter(u, a)
    \/ \E u \in Uses : IsTarfile(u)
    \/ \E u \in Uses : TarExtract(u)
    \/ \E u \in Uses : Yield(u)
    \/ \E u \in Uses : BodyReturns(u)
    \/ \E u \in Uses : BodyRaises(u)
    \/ \E u \in Uses : IsZipfile(u)
    \/ \E u \in Uses : ZipOpen(u)
    \/ \E u \in Uses : Finally(u)

\* C3: every use of tempextract ends with the scratch directory it created
\* removed: whatever the path names, and whether the body completed or
\* raised, once the with statement has exited the directory does not exist.
ScratchDirRemovedOnExit ==
    \A u \in Uses :
        tx[u].pc = "exited" => tx[u].tempdir # 0 /\ tx[u].tempdir \notin fs

\* a use that extracted members, yielded, and whose body then raised
ScratchDirBodyRaisedSeen ==
    \E u \in Uses :
        /\ tx[u].pc = "exited"
        /\ tx[u].outcome = "BodyError"
        /\ tx[u].relpaths # <<>>

\* C10: for a path that is a valid tar or zip archive, tempextract extracts
\* all members into the fresh scratch directory and yields exactly once the
\* pair (scratch directory, member paths in order), before any cleanup.
ArchiveYieldsOnce ==
    \A u \in Uses :
        tx[u].path.kind \in {"tar", "zip"} =>
            /\ tx[u].pc = "body" =>
                  /\ tx[u].tempdir \in fs
                  /\ dirContent[tx[u].tempdir] = tx[u].path.members
            /\ tx[u].pc \in {"body", "finally", "exited"} =>
                  tx[u].yielded = <<<<tx[u].tempdir, tx[u].path.members>>>>

-----------------------------------------------------------------------------
(* licensingInfo and its tables.  A table is the set of its rows; the      *)
(* AUTO_INCREMENT column `id` of an inserted row takes the table's         *)
(* Auto_increment value, which SHOW TABLE STATUS reports in column 10 and  *)
(* the insert then raises by one.  One cursor, one call at a time.         *)

MaxPersists == 2   \* calls of insertLicensingInfo that reach the inserts

\* what no method of licensingInfo touches
dbOthers == <<verVars, ftVars, txVars, outVars>>

tables == <<package_files, licenses, doc_license_associations, licensings, auto_increment>>

\* licensingInfo(...): the objects the callers build
LicensingInfos ==
    {[licenseId |-> PyStr("LicenseRef-1"), extractedText |-> PyStr("text one"),
      licenseName |-> PyStr("First"), licenseCrossReference |-> PyStr("http://a"),
      licenseComment |-> PyStr("seen in a.c"), fileChecksum |-> PyStr("c1")],
     [licenseId |-> PyStr("LicenseRef-2"), extractedText |-> PyStr("text two"),
      licenseName |-> None, licenseCrossReference |-> None,
      licenseComment |-> PyStr(""), fileChecksum |-> PyStr("c2")],
     [licenseId |-> PyStr("LicenseRef-3"), extractedText |-> None,
      licenseName |-> PyStr("Third"), licenseCrossReference |-> None,
      licenseComment |-> None, fileChecksum |-> PyStr("c9")],
     [licenseId |-> None, extractedText |-> None,
      licenseName |-> None, licenseCrossReference |-> None,
      licenseComment |-> None, fileChecksum |-> None]}

\* the spdx_doc_id arguments
DocIds == {7, 8}

\* the doc_license_association_id arguments
AssocIds == 1..(MaxPersists + 1)

\* SQL `a = b`: never true of NULL
SqlEq(a, b) == a # None /\ b # None /\ a = b

\* SELECT id FROM package_files WHERE file_checksum = %s
SelectFileIds(checksum) ==
    {f.id : f \in {g \in package_files : SqlEq(g.file_checksum, checksum)}}

\* SELECT ... FROM doc_license_associations AS dla INNER JOIN licenses AS l
\* ON dla.license_id = l.id WHERE dla.id = %s
SelectLicensingInfo(id) ==
    {<<dla.license_identifier, dla.license_name, dla.license_comments,
       l.extracted_text, l.license_cross_reference>> :
        <<dla, l>> \in {p \in doc_license_associations \X licenses :
                          p[1].id = id /\ p[1].license_id = p[2].id}}

\* the database before the first call: two files with the same content and a
\* third, and a license catalog that is empty or already holds one row
DbInit ==
    /\ self \in LicensingInfos
    /\ package_files = {[id |-> 1, file_checksum |-> PyStr("c1")],
                        [id |-> 2, file_checksum |-> PyStr("c2")],
                        [id |-> 3, file_checksum |-> PyStr("c1")]}
    /\ \/ /\ licenses = {}
          /\ auto_increment = [licenses |-> 1, doc_license_associations |-> 1,
                               licensings |-> 1]
       \/ /\ licenses = {[id |-> 1, extracted_text |-> PyStr("catalog text"),
                          license_name |-> PyStr("Catalog"), osi_approved |-> PyStr(""),
                          standard_license_header |-> PyStr(""),
                          license_cross_reference |-> None]}
          /\ auto_increment = [licenses |-> 2, doc_license_associations |-> 1,
                               licensings |-> 1]
    /\ doc_license_associations = {}
    /\ licensings = {}
    /\ lastCall = [op |-> "__init__", arg |-> 0, exc |-> "", ret |-> None]

\* def __init__(self, ...): the caller builds another object
NewLicensingInfo(r) ==
    /\ self' = r
    /\ lastCall' = [op |-> "__init__", arg |-> 0, exc |-> "", ret |-> None]
    /\ UNCHANGED <<tables, dbOthers>>

InsertLicensingInfo_file_lookup_last(spdx_doc_id) ==
    LET licenseId == auto_increment.licenses
    IN  /\ Cardinality(licensings) < MaxPersists
        /\ licenses' = licenses \cup
              {[id |-> licenseId, extracted_text |-> self.extractedText,
                license_name |-> self.licenseName, osi_approved |-> PyStr(""),
                standard_license_header |-> PyStr(""),
                license_cross_reference |-> self.licenseCrossReference]}
        /\ IF SelectFileIds(self.fileChecksum) = {}
           THEN /\ lastCall' = [op |-> "insertLicensingInfo", arg |-> spdx_doc_id,
                                exc |-> "TypeError", ret |-> None]
                /\ auto_increment' = [auto_increment EXCEPT !.licenses = @ + 1]
                /\ UNCHANGED <<doc_license_associations, licensings>>
           ELSE \E package_file_id \in SelectFileIds(self.fileChecksum) :
                  LET docLicenseAssoc == auto_increment.doc_license_associations
                  IN  /\ doc_license_associations' = doc_license_associations \cup
                            {[id |-> docLicenseAssoc, spdx_doc_id |-> spdx_doc_id,
                              license_id |-> licenseId,
                              license_identifier |-> self.licenseId,
                              license_name |-> self.licenseName,
                              license_comments |-> self.licenseComment]}
                      /\ licensings' = licensings \cup
                            {[id |-> auto_increment.licensings,
                              package_file_id |-> package_file_id, juncture |-> PyStr(""),
                              doc_license_association_id |-> docLicenseAssoc]}
                      /\ auto_increment' =
                            [licenses |-> auto_increment.licenses + 1,
                             doc_license_associations |-> docLicenseAssoc + 1,
                             licensings |-> auto_increment.licensings + 1]
                      /\ lastCall' = [op |-> "insertLicensingInfo", arg |-> spdx_doc_id,
                                      exc |-> "", ret |-> PyInt(licenseId)]
        /\ UNCHANGED <<self, package_files, dbOthers>>

InsertLicensingInfo_status_after_insert(spdx_doc_id) ==
    IF SelectFileIds(self.fileChecksum) = {}
    THEN /\ lastCall' = [op |-> "insertLicensingInfo", arg |-> spdx_doc_id,
                         exc |-> "TypeError", ret |-> None]
         /\ UNCHANGED <<self, tables, dbOthers>>
    ELSE /\ Cardinality(licensings) < MaxPersists
         /\ \E package_file_id \in SelectFileIds(self.fileChecksum) :
              LET licenseId == auto_increment.licenses + 1
                  docLicenseAssoc == auto_increment.doc_license_associations
              IN  /\ licenses' = licenses \cup
                        {[id |-> auto_increment.licenses,
                          extracted_text |-> self.extractedText,
                          license_name |-> self.licenseName, osi_approved |-> PyStr(""),
                          standard_license_header |-> PyStr(""),
                          license_cross_reference |-> self.licenseCrossReference]}
                  /\ doc_license_associations' = doc_license_associations \cup
                        {[id |-> docLicenseAssoc, spdx_doc_id |-> spdx_doc_id,
                          license_id |-> licenseId,
                          license_identifier |-> self.licenseId,
                          license_name |-> self.licenseName,
                          license_comments |-> self.licenseComment]}
                  /\ licensings' = licensings \cup
                        {[id |-> auto_increment.licensings,
                          package_file_id |-> package_file_id, juncture |-> PyStr(""),
                          doc_license_association_id |-> docLicenseAssoc]}
                  /\ auto_increment' =
                        [licenses |-> auto_increment.licenses + 1,
                         doc_license_associations |-> docLicenseAssoc + 1,
                         licensings |-> auto_increment.licensings + 1]
                  /\ lastCall' = [op |-> "insertLicensingInfo", arg |-> spdx_doc_id,
                                  exc |-> "", ret |-> PyInt(licenseId)]
         /\ UNCHANGED <<self, package_files, dbOthers>>

\* def insertLicensingInfo(self, spdx_doc_id, dbCursor, osi_approved="",
\*                         standard_license_header="")
\* lines 29-33: fetchone() is None when no file has the checksum, and None[0]
\*   raises TypeError before any insert; with several such files the row
\*   fetched is the server's choice;
\* lines 36-59: licenseId is the catalog's Auto_increment, read before the
\*   insert that takes it; lines 62-87 the same for the association;
\* lines 89-102: the linking row, then return licenseId.
InsertLicensingInfo(spdx_doc_id) ==
    IF SelectFileIds(self.fileChecksum) = {}
    THEN /\ lastCall' = [op |-> "insertLicensingInfo", arg |-> spdx_doc_id,
                         exc |-> "TypeError", ret |-> None]
         /\ UNCHANGED <<self, tables, dbOthers>>
    ELSE /\ Cardinality(licensings) < MaxPersists
         /\ \E package_file_id \in SelectFileIds(self.fileChecksum) :
              LET licenseId == auto_increment.licenses
                  docLicenseAssoc == auto_increment.doc_license_associations
              IN  /\ licenses' = licenses \cup
                        {[id |-> auto_increment.licenses,
                          extracted_text |-> self.extractedText,
                          license_name |-> self.licenseName, osi_approved |-> PyStr(""),
                          standard_license_header |-> PyStr(""),
                          license_cross_reference |-> self.licenseCrossReference]}
                  /\ doc_license_associations' = doc_license_associations \cup
                        {[id |-> auto_increment.doc_license_associations,
                          spdx_doc_id |-> spdx_doc_id,
                          license_id |-> licenseId,
                          license_identifier |-> self.licenseId,
                          license_name |-> self.licenseName,
                          license_comments |-> self.licenseComment]}
                  /\ licensings' = licensings \cup
                        {[id |-> auto_increment.licensings,
                          package_file_id |-> package_file_id, juncture |-> PyStr(""),
                          doc_license_association_id |-> docLicenseAssoc]}
                  /\ auto_increment' =
                        [licenses |-> auto_increment.licenses + 1,
                         doc_license_associations |->
                             auto_increment.doc_license_associations + 1,
                         licensings |-> auto_increment.licensings + 1]
                  /\ lastCall' = [op |-> "insertLicensingInfo", arg |-> spdx_doc_id,
                                  exc |-> "", ret |-> PyInt(licenseId)]
         /\ UNCHANGED <<self, package_files, dbOthers>>

GetLicensingInfo_clears_on_miss(doc_license_association_id) ==
    LET rows == SelectLicensingInfo(doc_license_association_id)
        miss == <<None, None, None, None, None>>
    IN  /\ \E queryReturn \in (IF rows = {} THEN {miss} ELSE rows) :
              self' = [self EXCEPT !.licenseId = queryReturn[1],
                                   !.licenseName = queryReturn[2],
                                   !.licenseComment = queryReturn[3],
                                   !.extractedText = queryReturn[4],
                                   !.licenseCrossReference = queryReturn[5]]
        /\ lastCall' = [op |-> "getLicensingInfo", arg |-> doc_license_association_id,
                        exc |-> "", ret |-> None]
        /\ UNCHANGED <<tables, dbOthers>>

\* def getLicensingInfo(self, doc_license_association_id, dbCursor)
GetLicensingInfo(doc_license_association_id) ==
    LET rows == SelectLicensingInfo(doc_license_association_id)
    IN  /\ IF rows = {}
           THEN self' = self
           ELSE \E queryReturn \in rows :
                  self' = [self EXCEPT !.licenseId = queryReturn[1],
                                       !.licenseName = queryReturn[2],
                                       !.licenseComment = queryReturn[3],
                                       !.extractedText = queryReturn[4],
                                       !.licenseCrossReference = queryReturn[5]]
        /\ lastCall' = [op |-> "getLicensingInfo", arg |-> doc_license_association_id,
                        exc |-> "", ret |-> None]
        /\ UNCHANGED <<tables, dbOthers>>

DbNext ==
    \/ \E r \in LicensingInfos : NewLicensingInfo(r)
    \/ \E d \in DocIds : InsertLicensingInfo(d)
    \/ \E id \in AssocIds : GetLicensingInfo(id)

\* C5: getLicensingInfo with an association identifier that matches no row
\* raises no error and leaves the six fields of the object, and every row of
\* the database, as they were.
LoadMissLeavesRecordUnchanged ==
    [][(/\ lastCall'.op = "getLicensingInfo"
        /\ SelectLicensingInfo(lastCall'.arg) = {})
       => /\ lastCall'.exc = ""
          /\ self' = self
          /\ tables' = tables]_vars

\* a load that matched no row although associations exist, on an object
\* whose fields were set
LoadMissSeen ==
    /\ lastCall.op = "getLicensingInfo"
    /\ SelectLicensingInfo(lastCall.arg) = {}
    /\ doc_license_associations # {}
    /\ self.licenseId # None
    /\ self.licenseComment # None

\* C6: insertLicensingInfo on an object whose fileChecksum is the stored
\* checksum of no file record fails with an error and inserts no row into
\* the license catalog, the association table or the linking table.
PersistWithoutFileFailsCleanly ==
    [][(/\ lastCall'.op = "insertLicensingInfo"
        /\ SelectFileIds(self.fileChecksum) = {})
       => /\ lastCall'.exc # ""
          /\ licenses' = licenses
          /\ doc_license_associations' = doc_license_associations
          /\ licensings' = licensings]_vars

\* a persist that failed for want of a file record, on an object that names
\* a checksum, after an earlier persist had succeeded
PersistWithoutFileSeen ==
    /\ lastCall.op = "insertLicensingInfo"
    /\ lastCall.exc = "TypeError"
    /\ self.fileChecksum # None
    /\ SelectFileIds(self.fileChecksum) = {}
    /\ licensings # {}

\* C7: a call of insertLicensingInfo that completes creates exactly one
\* catalog row, one association row and one linking row; the association's
\* license_id is the new catalog row's id, the linking row's
\* doc_license_association_id is the new association's id, its
\* package_file_id is a file record with the object's checksum, and the
\* value returned is the new catalog row's id.  After any sequence of calls.
PersistCreatesLinkedRows ==
    [][(/\ lastCall'.op = "insertLicensingInfo"
        /\ lastCall'.exc = "")
       => LET newL == licenses' \ licenses
              newA == doc_license_associations' \ doc_license_associations
              newK == licensings' \ licensings
          IN  /\ licenses \subseteq licenses'
              /\ doc_license_associations \subseteq doc_license_associations'
              /\ licensings \subseteq licensings'
              /\ Cardinality(licenses') = Cardinality(licenses) + 1
              /\ Cardinality(doc_license_associations') =
                    Cardinality(doc_license_associations) + 1
              /\ Cardinality(licensings') = Cardinality(licensings) + 1
              /\ \A l \in newL, a \in newA, k \in newK :
                    /\ a.license_id = l.id
                    /\ k.doc_license_association_id = a.id
                    /\ \E f \in package_files :
                          /\ f.id = k.package_file_id
                          /\ f.file_checksum = self.fileChecksum
                    /\ lastCall'.ret = PyInt(l.id)
                    /\ \A m \in licenses : m.id # l.id
                    /\ \A b \in doc_license_associations : b.id # a.id]_vars

\* a second persist has completed on a database whose catalog and
\* association tables number their rows differently
PersistTwiceSeen ==
    /\ lastCall.op = "insertLicensingInfo"
    /\ lastCall.exc = ""
    /\ Cardinality(licensings) >= 2
    /\ auto_increment.licenses # auto_increment.doc_license_associations

-----------------------------------------------------------------------------
(* The serializers.  `output` is the Python string built by the appends.   *)

MaxRefs == 2   \* longest licenseCrossReference list serialized

\* what no serializer touches
outOthers == <<verVars, ftVars, txVars, dbVars>>

References == {PyStr("http://a"), PyStr("http://b")}

\* the objects serialized: licenseCrossReference is absent, a list, or (as
\* getLicensingInfo leaves it) one string; licenseComment is absent (the
\* constructor's default), empty or a text
SerializedInfos ==
    [licenseId : {None, PyStr("LicenseRef-1")},
     licenseName : {PyStr("First")},
     extractedText : {None, PyStr("text one")},
     licenseCrossReference :
         {None, PyStr("ab")} \cup {PyList(q) : q \in SeqUpTo(References, MaxRefs)},
     licenseComment : {None, PyStr(""), PyStr("seen in a.c")},
     fileChecksum : {None}]

\* `for reference in x`: the items of a list, the characters of a str
iter(x) ==
    IF x.type = "list" THEN x.items
    ELSE [k \in 1..Len(x.s) |-> PyStr(SubSeq(x.s, k, k))]

OutInit ==
    /\ rec \in SerializedInfos
    /\ output = None
    /\ outCall = [op |-> "", exc |-> ""]

\* the lines 112-113 of the tag form, for the references q
RECURSIVE TagReferences(_)
TagReferences(q) ==
    IF q = <<>> THEN ""
    ELSE "LicenseCrossReference: " \o str(q[1]) \o "\n" \o TagReferences(Tail(q))

\* def outputLicensingInfo_TAG(self)
outputLicensingInfo_TAG(r) ==
    "LicenseID: " \o str(r.licenseId) \o "\n"
    \o "LicenseName: " \o str(r.licenseName) \o "\n"
    \o (IF r.licenseCrossReference # None
        THEN TagReferences(iter(r.licenseCrossReference)) ELSE "")
    \o "ExtractedText: <text>" \o str(r.extractedText) \o "</text>\n"
    \o (IF r.licenseComment # PyStr("")
        THEN "LicenseComment: <text>" \o str(r.licenseComment) \o "</text>\n" ELSE "")

\* the caller calls self.outputLicensingInfo_TAG()
OutputTag ==
    /\ output' = PyStr(outputLicensingInfo_TAG(rec))
    /\ outCall' = [op |-> "outputLicensingInfo_TAG", exc |-> ""]
    /\ UNCHANGED <<rec, outOthers>>

\* whether lines 138-141 of the RDF form raise: the first pass of the loop
\* evaluates self.reference, an attribute no licensingInfo object has
RdfRaises(r) ==
    /\ r.licenseCrossReference # None
    /\ iter(r.licenseCrossReference) # <<>>

\* def outputLicensingInfo_RDF(self), when the loop body is never entered
outputLicensingInfo_RDF(r) ==
    "\t\t<licenseId>" \o str(r.licenseId) \o "</licenseId>\n"
    \o "\t\t<licenseName>" \o str(r.licenseName) \o "</licenseName>\n"
    \o "\t\t<extractedText>" \o str(r.extractedText) \o "</extractedText>\n"
    \o (IF r.licenseComment # None
        THEN "\t\t<rdfs:comment>" \o str(r.licenseComment) \o "</rdfs:comment>\n" ELSE "")

\* the caller calls self.outputLicensingInfo_RDF()
OutputRdf ==
    /\ IF RdfRaises(rec)
       THEN /\ output' = None
            /\ outCall' = [op |-> "outputLicensingInfo_RDF", exc |-> "AttributeError"]
       ELSE /\ output' = PyStr(outputLicensingInfo_RDF(rec))
            /\ outCall' = [op |-> "outputLicensingInfo_RDF", exc |-> ""]
    /\ UNCHANGED <<rec, outOthers>>

OutNext == OutputTag \/ OutputRdf

\* whether sub stands in text at position k
At(text, k, sub) ==
    k + Len(sub) - 1 <= Len(text) /\ SubSeq(text, k, k + Len(sub) - 1) = sub

\* where the lines of the text begin
LineStarts(text) ==
    {k \in 1..Len(text) : k = 1 \/ SubSeq(text, k - 1, k - 1) = "\n"}

\* the line of the text that begins at k, without its line break
LineAt(text, k) ==
    LET stop == CHOOSE e \in k..(Len(text) + 1) :
                    /\ e = Len(text) + 1 \/ SubSeq(text, e, e) = "\n"
                    /\ \A m \in k..(e - 1) : SubSeq(text, m, m) # "\n"
    IN  SubSeq(text, k, stop - 1)

\* the lines of the text that begin with the tag, in the text's order
TaggedLines(text, tag) ==
    LET starts == {k \in LineStarts(text) : At(text, k, tag)}
    IN  [n \in 1..Cardinality(starts) |->
            LineAt(text, CHOOSE k \in starts : Cardinality({m \in starts : m < k}) = n - 1)]

\* how often sub occurs in text
Occurrences(sub, text) ==
    Cardinality({k \in 1..Len(text) : At(text, k, sub)})

\* the cross-references of the object, none when absent
ReferencesOf(r) ==
    IF r.licenseCrossReference = None THEN <<>> ELSE iter(r.licenseCrossReference)

\* the tag form has one LicenseCrossReference line per cross-reference, in
\* the order of the sequence, and none when the sequence is absent
TagCrossReferenceLines ==
    outCall.op = "outputLicensingInfo_TAG" =>
        TaggedLines(output.s, "LicenseCrossReference:") =
            [k \in 1..Len(ReferencesOf(rec)) |->
                "LicenseCrossReference: " \o str(ReferencesOf(rec)[k])]

\* C8: the tag form has exactly one LicenseCrossReference line per element of
\* the cross-reference sequence, in its order (none when it is absent), and a
\* LicenseComment block only if licenseComment is non-empty: no such line
\* for an empty comment, exactly one for a non-empty comment.  An object
\* without a comment (None, the constructor's default) has no non-empty
\* comment.
TagLinesAsSpecified ==
    outCall.op = "outputLicensingInfo_TAG" =>
        /\ TaggedLines(output.s, "LicenseCrossReference:") =
              [k \in 1..Len(ReferencesOf(rec)) |->
                  "LicenseCrossReference: " \o str(ReferencesOf(rec)[k])]
        /\ Len(TaggedLines(output.s, "LicenseComment:")) =
              IF rec.licenseComment \in {None, PyStr("")} THEN 0 ELSE 1

\* the tag form has a LicenseComment block exactly when licenseComment is
\* not the empty string; for an absent comment the block holds the text None
TagCommentUnlessEmptyString ==
    outCall.op = "outputLicensingInfo_TAG" =>
        TaggedLines(output.s, "LicenseComment:") =
            IF rec.licenseComment = PyStr("") THEN <<>>
            ELSE <<"LicenseComment: <text>" \o str(rec.licenseComment) \o "</text>">>

\* C9: the RDF form returns normally for every object, with one
\* <rdfs:seeAlso> element per cross-reference, each carrying its text.
RdfSeeAlsoPerReference ==
    outCall.op = "outputLicensingInfo_RDF" =>
        /\ outCall.exc = ""
        /\ output # None
        /\ Occurrences("<rdfs:seeAlso>", output.s) = Len(ReferencesOf(rec))
        /\ \A k \in 1..Len(ReferencesOf(rec)) :
              In("<rdfs:seeAlso>" \o str(ReferencesOf(rec)[k]) \o "</rdfs:seeAlso>",
                 output.s)

\* the RDF form returns normally, without <rdfs:seeAlso>, when the object
\* has no cross-reference
RdfWithoutReferences ==
    (outCall.op = "outputLicensingInfo_RDF" /\ ReferencesOf(rec) = <<>>) =>
        /\ outCall.exc = ""
        /\ Occurrences("<rdfs:seeAlso>", output.s) = 0

-----------------------------------------------------------------------------
(* The components at rest, for the specifications that do not run them.    *)

FtIdle == magic_string = "" /\ filetype = None /\ ftPc = "idle"

TxIdle == fs = {} /\ nextDir = 1 /\ dirContent = <<>> /\ tx = <<>>

DbIdle ==
    /\ self = None
    /\ package_files = {}
    /\ licenses = {}
    /\ doc_license_associations = {}
    /\ licensings = {}
    /\ auto_increment = <<>>
    /\ lastCall = None

OutIdle == rec = None /\ output = None /\ outCall = None

\* gen_ver_code applied once to each input of the bounded sets
InitVer == VerInit /\ FtIdle /\ TxIdle /\ DbIdle /\ OutIdle

SpecVer == InitVer /\ [][VerNext]_vars

\* spdx_filetype applied once to each probe string
InitType == FtInit /\ VerIdle /\ TxIdle /\ DbIdle /\ OutIdle

SpecType == InitType /\ [][FtNext]_vars

InitExtract == TxInit /\ VerIdle /\ FtIdle /\ DbIdle /\ OutIdle

\* NumUses with statements over tempextract, their steps interleaved
SpecExtract == InitExtract /\ [][TxNext]_vars

InitDb == DbInit /\ VerIdle /\ FtIdle /\ TxIdle /\ OutIdle

\* any sequence of constructions, persists and loads on one database
SpecDb == InitDb /\ [][DbNext]_vars

InitOut == OutInit /\ VerIdle /\ FtIdle /\ TxIdle /\ DbIdle

\* either serializer called, any number of times, on each object
SpecOut == InitOut /\ [][OutNext]_vars

=============================================================================
